---- MODULE Spec2Model ----
(***************************************************************************)
(* Model of the config generators create.py, create_locals.py and          *)
(* sync_ctx_sizes.py: each reads models.csv and rewrites the `models`      *)
(* section of config.yaml.                                                 *)
(*                                                                         *)
(* A Python str is a sequence of one-character strings, so that split,     *)
(* strip, endswith, removesuffix, the multi-part regular expression and    *)
(* the substring tests are computed character by character.  A YAML        *)
(* mapping is a sequence of [k, v] pairs (Python dicts keep insertion      *)
(* order); a YAML value is a tagged record.                                *)
(***************************************************************************)
EXTENDS Integers, Sequences, FiniteSets, TLC

(***************************************************************************)
(* Python str operations                                                   *)
(***************************************************************************)
UpperChars == <<"A","B","C","D","E","F","G","H","I","J","K","L","M",
                "N","O","P","Q","R","S","T","U","V","W","X","Y","Z">>
LowerChars == <<"a","b","c","d","e","f","g","h","i","j","k","l","m",
                "n","o","p","q","r","s","t","u","v","w","x","y","z">>
DigitChars == <<"0","1","2","3","4","5","6","7","8","9">>

IsDigit(c) == \E i \in 1..10 : DigitChars[i] = c
IsSpace(c) == c \in {" ", "\n", "\t"}

\* str.lower() on one character
LowerChar(c) ==
    IF \E i \in 1..26 : UpperChars[i] = c
    THEN LowerChars[CHOOSE i \in 1..26 : UpperChars[i] = c]
    ELSE c

\* str.lower()
Lower(s) == [i \in 1..Len(s) |-> LowerChar(s[i])]

\* s[i:] with a 1-based start
From(s, i) == IF i > Len(s) THEN <<>> ELSE SubSeq(s, i, Len(s))

\* s.startswith(p, i-1)
StartsWithAt(s, i, p) ==
    /\ i >= 1
    /\ i + Len(p) - 1 <= Len(s)
    /\ \A j \in 1..Len(p) : s[i + j - 1] = p[j]

\* s.endswith(p)
EndsWith(s, p) == Len(p) <= Len(s) /\ StartsWithAt(s, Len(s) - Len(p) + 1, p)

\* p in s
Contains(s, p) == \E i \in 1..(Len(s) + 1) : StartsWithAt(s, i, p)

\* c in s, for one character
HasChar(s, c) == \E i \in 1..Len(s) : s[i] = c

\* s.removesuffix(p)
RemoveSuffix(s, p) == IF EndsWith(s, p) THEN SubSeq(s, 1, Len(s) - Len(p)) ELSE s

\* s.split(c)[0]
BeforeFirst(s, c) ==
    IF HasChar(s, c)
    THEN SubSeq(s, 1, (CHOOSE i \in 1..Len(s) : s[i] = c /\ \A j \in 1..(i-1) : s[j] # c) - 1)
    ELSE s

\* s.split(c, 1)[1], for s that holds c
AfterFirst(s, c) ==
    From(s, (CHOOSE i \in 1..Len(s) : s[i] = c /\ \A j \in 1..(i-1) : s[j] # c) + 1)

\* s.split(c)[-1]
AfterLast(s, c) ==
    IF HasChar(s, c)
    THEN From(s, (CHOOSE i \in 1..Len(s) : s[i] = c /\ \A j \in (i+1)..Len(s) : s[j] # c) + 1)
    ELSE s

\* s.replace(a, b), for single characters
ReplaceChar(s, a, b) == [i \in 1..Len(s) |-> IF s[i] = a THEN b ELSE s[i]]

\* s.lstrip() / s.rstrip() / s.strip()
RECURSIVE LStrip(_)
LStrip(s) == IF s # <<>> /\ IsSpace(s[1]) THEN LStrip(Tail(s)) ELSE s
RECURSIVE RStrip(_)
RStrip(s) ==
    IF s # <<>> /\ IsSpace(s[Len(s)]) THEN RStrip(SubSeq(s, 1, Len(s) - 1)) ELSE s
Strip(s) == LStrip(RStrip(s))

\* s.split(): the whitespace-separated words of s
RECURSIVE SplitWords(_)
SplitWords(s) ==
    LET t == LStrip(s) IN
    IF t = <<>> THEN <<>>
    ELSE LET n == IF \E i \in 1..Len(t) : IsSpace(t[i])
                  THEN (CHOOSE i \in 1..Len(t) :
                            IsSpace(t[i]) /\ \A j \in 1..(i-1) : ~IsSpace(t[j])) - 1
                  ELSE Len(t)
         IN <<SubSeq(t, 1, n)>> \o SplitWords(From(t, n + 1))

\* the length of the longest run of digits of s that starts at i
RECURSIVE DigitRun(_, _)
DigitRun(s, i) == IF i <= Len(s) /\ IsDigit(s[i]) THEN 1 + DigitRun(s, i + 1) ELSE 0

\* str(n) for an int
RECURSIVE NatToStr(_)
NatToStr(n) ==
    IF n < 10 THEN <<DigitChars[n + 1]>>
    ELSE NatToStr(n \div 10) \o <<DigitChars[(n % 10) + 1]>>
IntToStr(n) == IF n < 0 THEN <<"-">> \o NatToStr(-n) ELSE NatToStr(n)

\* int(s): the value, for a decimal literal with an optional sign
RECURSIVE DigitsValue(_)
DigitsValue(s) ==
    IF s = <<>> THEN 0
    ELSE 10 * DigitsValue(SubSeq(s, 1, Len(s) - 1))
         + (CHOOSE d \in 0..9 : DigitChars[d + 1] = s[Len(s)])
IsIntLiteral(s) ==
    LET t == Strip(s)
        d == IF t # <<>> /\ t[1] \in {"-", "+"} THEN Tail(t) ELSE t
    IN d # <<>> /\ \A i \in 1..Len(d) : IsDigit(d[i])
IntValue(s) ==
    LET t == Strip(s) IN
    IF t[1] = "-" THEN 0 - DigitsValue(Tail(t))
    ELSE IF t[1] = "+" THEN DigitsValue(Tail(t))
    ELSE DigitsValue(t)

(***************************************************************************)
(* models.csv                                                              *)
(*                                                                         *)
(* The file is a sequence of lines, a line the sequence of its cells as    *)
(* the csv module splits it.  The first line that is neither a comment nor *)
(* blank is the header.                                                    *)
(***************************************************************************)
S_repo == <<"r","e","p","o">>
S_applied_ctx_size == <<"a","p","p","l","i","e","d","_","c","t","x","_","s","i","z","e">>
S_id == <<"i","d">>
S_hf_ctx_size == <<"h","f","_","c","t","x","_","s","i","z","e">>
S_embedder == <<"e","m","b","e","d","d","e","r">>
S_gguf == <<".","g","g","u","f">>
S_GGUF_suffix == <<"-","G","G","U","F">>

\* the text of a line: its cells joined by commas
RECURSIVE LineText(_)
LineText(cells) ==
    IF cells = <<>> THEN <<>>
    ELSE IF Len(cells) = 1 THEN cells[1]
    ELSE cells[1] \o <<",">> \o LineText(Tail(cells))

\* not ln.lstrip().startswith('#') and ln.strip()
KeepLine(cells) ==
    LET ln == LineText(cells) IN
    /\ ~StartsWithAt(LStrip(ln), 1, <<"#">>)
    /\ Strip(ln) # <<>>

RECURSIVE Filtered(_)
Filtered(raw) ==
    IF raw = <<>> THEN <<>>
    ELSE IF KeepLine(raw[1]) THEN <<raw[1]>> \o Filtered(Tail(raw))
    ELSE Filtered(Tail(raw))

\* (r.get(name) or ""): the cell under the last column called name
Cell(fieldnames, cells, name) ==
    LET idx == {i \in 1..Len(fieldnames) : fieldnames[i] = name} IN
    IF idx = {} THEN <<>>
    ELSE LET i == CHOOSE i \in idx : \A j \in idx : j <= i IN
         IF i <= Len(cells) THEN cells[i] ELSE <<>>

\* the id of a row: the id cell, or the fallback derived from the repo
RowId(fieldnames, cells) ==
    LET repo == Strip(Cell(fieldnames, cells, S_repo))
        id_raw == Strip(Cell(fieldnames, cells, S_id))
    IN IF id_raw # <<>> THEN id_raw
       ELSE BeforeFirst(AfterLast(repo, "/"), ":")
            \o (IF HasChar(repo, ":") THEN <<":">> \o AfterFirst(repo, ":") ELSE <<>>)

\* the text int() is given for the applied_ctx_size cell; <<>> stands for the int 0
AppliedText(fieldnames, cells) ==
    LET c == Cell(fieldnames, cells, S_applied_ctx_size) IN
    Strip(IF c = <<>> THEN <<"0">> ELSE c)

RowApplied(fieldnames, cells) ==
    LET t == AppliedText(fieldnames, cells) IN
    IF t = <<>> THEN 0 ELSE IntValue(t)

\* int() raises ValueError on this row
RowRaises(fieldnames, cells) ==
    LET t == AppliedText(fieldnames, cells) IN
    /\ Strip(Cell(fieldnames, cells, S_repo)) # <<>>
    /\ t # <<>>
    /\ ~IsIntLiteral(t)

RECURSIVE RowsLocal(_, _, _)
RowsLocal(fieldnames, lines, locals) ==
    IF lines = <<>> THEN <<>>
    ELSE LET r == lines[1]
             repo == Strip(Cell(fieldnames, r, S_repo))
         IN IF repo = <<>> THEN RowsLocal(fieldnames, Tail(lines), locals)
            ELSE << [id |-> RowId(fieldnames, r),
                     repo |-> repo,
                     applied |-> RowApplied(fieldnames, r),
                     hf |-> Strip(Cell(fieldnames, r, S_hf_ctx_size)),
                     embedder |-> locals
                                  /\ Lower(Strip(Cell(fieldnames, r, S_embedder)))
                                     = S_embedder] >>
                 \o RowsLocal(fieldnames, Tail(lines), locals)

\* load_csv_rows: the rows, sys.exit(2), or an uncaught ValueError.  create.py's
\* rows carry no embedder flag (locals = FALSE leaves it FALSE and unread).
load_csv_rows(raw, locals) ==
    LET filtered == Filtered(raw) IN
    IF filtered = <<>> THEN [status |-> "ok", rows |-> <<>>]
    ELSE LET fieldnames == filtered[1]
             data == Tail(filtered)
             required == {S_repo, S_applied_ctx_size}
             missing == required \ {fieldnames[i] : i \in 1..Len(fieldnames)}
         IN IF missing # {} THEN [status |-> "exit", rows |-> <<>>]
            ELSE IF \E i \in 1..Len(data) : RowRaises(fieldnames, data[i])
                 THEN [status |-> "raise", rows |-> <<>>]
                 ELSE [status |-> "ok", rows |-> RowsLocal(fieldnames, data, locals)]

(***************************************************************************)
(* YAML values and Python dicts                                            *)
(***************************************************************************)
Str(s) == [t |-> "str", v |-> s]
Num(n) == [t |-> "int", v |-> n]
Map(pairs) == [t |-> "map", v |-> pairs]
Null == [t |-> "null", v |-> 0]

\* isinstance(x, dict) / isinstance(x, str)
IsDict(x) == x.t = "map"
IsStr(x) == x.t = "str"

Keys(pairs) == [i \in 1..Len(pairs) |-> pairs[i].k]
KeySet(pairs) == {pairs[i].k : i \in 1..Len(pairs)}

\* k in d
DictHas(pairs, k) == \E i \in 1..Len(pairs) : pairs[i].k = k

\* d.get(k), None being Null
DictGet(pairs, k) ==
    IF DictHas(pairs, k)
    THEN pairs[CHOOSE i \in 1..Len(pairs) : pairs[i].k = k].v
    ELSE Null

\* d[k] = v: an existing key keeps its place, a new key goes last
DictSet(pairs, k, v) ==
    IF DictHas(pairs, k)
    THEN [i \in 1..Len(pairs) |-> IF pairs[i].k = k THEN [k |-> k, v |-> v] ELSE pairs[i]]
    ELSE Append(pairs, [k |-> k, v |-> v])

(***************************************************************************)
(* create_locals.py: keys and commands                                     *)
(***************************************************************************)
\* str.format on a template: a sequence of literal pieces and placeholders
Lit(s) == [ph |-> "", lit |-> s]
Ph(name) == [ph |-> name, lit |-> <<>>]

RECURSIVE Format(_, _, _, _)
Format(template, id, repo, ctx) ==
    IF template = <<>> THEN <<>>
    ELSE LET p == template[1] IN
         (CASE p.ph = "id" -> id
            [] p.ph = "repo" -> repo
            [] p.ph = "ctx" -> IntToStr(ctx)
            [] OTHER -> p.lit)
         \o Format(Tail(template), id, repo, ctx)

CMD_TEMPLATE ==
    << Lit(<<"$","{","l","l","a","m","a","-","s","e","r","v","e","r","}","\n",
             " "," ","-","m"," ","/","m","o","d","e","l","s","/">>),
       Ph("id"),
       Lit(<<"\n"," "," ","-","-","c","t","x","-","s","i","z","e"," ">>),
       Ph("ctx"),
       Lit(<<" "," ","-","-","j","i","n","j","a">>) >>
CMD_TEMPLATE_REMOTE ==
    << Lit(<<"$","{","l","l","a","m","a","-","s","e","r","v","e","r","}","\n",
             " "," ","-","h","f"," ">>),
       Ph("repo"),
       Lit(<<"\n"," "," ","-","-","c","t","x","-","s","i","z","e"," ">>),
       Ph("ctx"),
       Lit(<<" "," ","-","-","j","i","n","j","a">>) >>
CMD_EMBED ==
    << Lit(<<"$","{","l","l","a","m","a","-","s","e","r","v","e","r","}","\n",
             " "," ","-","m"," ","/","m","o","d","e","l","s","/">>),
       Ph("id"),
       Lit(<<"\n"," "," ","-","-","e","m","b","e","d","d","i","n","g">>) >>
CMD_EMBED_REMOTE ==
    << Lit(<<"$","{","l","l","a","m","a","-","s","e","r","v","e","r","}","\n",
             " ","-","h","f"," ">>),
       Ph("repo"),
       Lit(<<"\n"," "," ","-","-","e","m","b","e","d","d","i","n","g">>) >>

derive_key_from_repo(repo_with_quant) ==
    IF ~HasChar(repo_with_quant, ":") \/ ~HasChar(repo_with_quant, "/")
    THEN ReplaceChar(repo_with_quant, "/", "-")
    ELSE LET repo == BeforeFirst(repo_with_quant, ":")
             quant == AfterFirst(repo_with_quant, ":")
             name == RemoveSuffix(AfterLast(repo, "/"), S_GGUF_suffix)
         IN name \o <<":">> \o quant

build_cmd(model_id, repo_with_quant, ctx, embedder) ==
    LET template ==
            IF embedder
            THEN (IF EndsWith(model_id, S_gguf) THEN CMD_EMBED ELSE CMD_EMBED_REMOTE)
            ELSE (IF EndsWith(model_id, S_gguf) THEN CMD_TEMPLATE ELSE CMD_TEMPLATE_REMOTE)
    IN Format(template, model_id, repo_with_quant, ctx)

\* r["id"] or derive_key_from_repo(repo_with_quant)
ModelIdRaw(r) == IF r.id # <<>> THEN r.id ELSE derive_key_from_repo(r.repo)

\* the length of the match of -\d+-of-\d+(?=\.gguf|$), ignoring case, that starts
\* at i; 0 when there is none
MultipartMatchLen(s, i) ==
    LET d1 == DigitRun(s, i + 1)
        o == i + 1 + d1
        d2 == DigitRun(s, o + 4)
        e == o + 4 + d2
    IN IF /\ i <= Len(s)
          /\ s[i] = "-"
          /\ d1 >= 1
          /\ StartsWithAt(Lower(s), o, <<"-","o","f","-">>)
          /\ d2 >= 1
          /\ (e > Len(s) \/ StartsWithAt(Lower(s), e, S_gguf))
       THEN 1 + d1 + 4 + d2
       ELSE 0

\* re.sub(r'-\d+-of-\d+(?=\.gguf|$)', '', s, flags=re.IGNORECASE), from i on
RECURSIVE MultipartSub(_, _)
MultipartSub(s, i) ==
    IF i > Len(s) THEN <<>>
    ELSE IF MultipartMatchLen(s, i) > 0 THEN MultipartSub(s, i + MultipartMatchLen(s, i))
    ELSE <<s[i]>> \o MultipartSub(s, i + 1)

base_name(model_id_raw) == MultipartSub(model_id_raw, 1)

\* the key before collision suffixing
original_key(model_id_raw) ==
    LET b == base_name(model_id_raw) IN
    IF EndsWith(Lower(b), S_gguf) THEN SubSeq(b, 1, Len(b) - 5) ELSE b

\* while yaml_key in seen_keys: yaml_key = f"{original_key}__{suffix}"; suffix += 1
RECURSIVE SuffixLoop(_, _, _, _)
SuffixLoop(yaml_key, original, suffix, seen) ==
    IF yaml_key \in seen
    THEN SuffixLoop(original \o <<"_","_">> \o IntToStr(suffix), original, suffix + 1, seen)
    ELSE yaml_key

\* variants of ResolveKey that the key properties must tell from it: one that
\* never suffixes, one that tries __2 and stops
ResolveKeyNoSuffix(original, seen) == original
ResolveKeyOnce(original, seen) ==
    IF original \in seen THEN original \o <<"_","_","2">> ELSE original

\* the while loop of both create scripts, entered with yaml_key = original
ResolveKey(original, seen) == SuffixLoop(original, original, 2, seen)

\* a variant of preserved_entry that starts from an empty entry
preserved_entry_fresh(existing_models, yaml_key, cmd) == Map(<< [k |-> "cmd", v |-> Str(cmd)] >>)

\* the entry create_locals.py stores under yaml_key
preserved_entry(existing_models, yaml_key, cmd) ==
    LET existing_entry == DictGet(existing_models, yaml_key)
        preserved == IF IsDict(existing_entry) THEN existing_entry.v ELSE <<>>
    IN Map(DictSet(preserved, "cmd", Str(cmd)))

(***************************************************************************)
(* create.py: commands rebuilt from the commands of the prior document     *)
(***************************************************************************)
\* the first i with parts[i] = "-hf" and a word after it; 0 when there is none
HfIndex(parts) ==
    LET hits == {i \in 1..(Len(parts) - 1) : parts[i] = <<"-","h","f">>} IN
    IF hits = {} THEN 0 ELSE CHOOSE i \in hits : \A j \in hits : i <= j

\* repo_with_quant -> (key, cmd) over the entries of the prior models mapping
RECURSIVE repo_to_existing(_)
repo_to_existing(models) ==
    IF models = <<>> THEN <<>>
    ELSE LET n == Len(models)
             rest == repo_to_existing(SubSeq(models, 1, n - 1))
             key == models[n].k
             val == models[n].v
             cmd == IF IsDict(val) THEN DictGet(val.v, "cmd") ELSE Null
             parts == IF IsStr(cmd) THEN SplitWords(cmd.v) ELSE <<>>
         IN IF HfIndex(parts) = 0 THEN rest
            ELSE DictSet(rest, parts[HfIndex(parts) + 1], [key |-> key, cmd |-> cmd.v])

S_flash_attn == <<"-","-","f","l","a","s","h","-","a","t","t","n">>

\* create.py's build_cmd; existing_cmd is "" when the repo has no prior command
create_build_cmd(existing_cmd, repo_with_quant, ctx) ==
    LET base == <<"l","l","a","m","a","-","s","e","r","v","e","r"," ","-","-","p","o","r","t",
                  " ","$","{","P","O","R","T","}"," ","-","h","f"," ">>
                \o repo_with_quant
                \o <<" ","-","-","c","t","x","-","s","i","z","e"," ">>
                \o IntToStr(ctx)
    IN IF existing_cmd = <<>> THEN base \o <<" ">> \o S_flash_attn
       ELSE IF Contains(existing_cmd, S_flash_attn) /\ ~Contains(base, S_flash_attn)
            THEN base \o <<" ">> \o S_flash_attn
            ELSE base

\* existing_cmd or "" for a repo
ExistingCmd(r2e, repo_with_quant) ==
    IF DictHas(r2e, repo_with_quant) THEN DictGet(r2e, repo_with_quant).cmd ELSE <<>>

(***************************************************************************)
(* sync_ctx_sizes.py: config.yaml patched as text                          *)
(***************************************************************************)
S_models_colon == <<"m","o","d","e","l","s",":">>
S_cmd_colon == <<"c","m","d",":">>
S_hf == <<"-","h","f">>
S_ctx_size == <<"-","-","c","t","x","-","s","i","z","e">>

\* the length of the longest run from i of characters that are no whitespace
RECURSIVE WordRun(_, _)
WordRun(s, i) == IF i <= Len(s) /\ ~IsSpace(s[i]) THEN 1 + WordRun(s, i + 1) ELSE 0
\* ... that are neither whitespace nor a colon
RECURSIVE NameRun(_, _)
NameRun(s, i) ==
    IF i <= Len(s) /\ ~IsSpace(s[i]) /\ s[i] # ":" THEN 1 + NameRun(s, i + 1) ELSE 0
\* ... that are whitespace
RECURSIVE SpaceRun(_, _)
SpaceRun(s, i) == IF i <= Len(s) /\ IsSpace(s[i]) THEN 1 + SpaceRun(s, i + 1) ELSE 0

\* row.get(col, "").strip() of csv.DictReader(f): the cell, "" for a column the
\* header lacks, and None (on which .strip() raises) for a row too short
SyncCellNone(fieldnames, cells, name) ==
    LET idx == {i \in 1..Len(fieldnames) : fieldnames[i] = name} IN
    idx # {} /\ (CHOOSE i \in idx : \A j \in idx : j <= i) > Len(cells)

\* str.isdigit()
IsDigits(s) == s # <<>> /\ \A i \in 1..Len(s) : IsDigit(s[i])

\* the rows csv.DictReader yields: the lines after the header, empty lines skipped
RECURSIVE NonEmptyLines(_)
NonEmptyLines(raw) ==
    IF raw = <<>> THEN <<>>
    ELSE IF LineText(raw[1]) = <<>> THEN NonEmptyLines(Tail(raw))
    ELSE <<raw[1]>> \o NonEmptyLines(Tail(raw))

RECURSIVE RepoCtxLoop(_, _, _)
RepoCtxLoop(fieldnames, lines, acc) ==
    IF lines = <<>> THEN acc
    ELSE LET repo == Strip(Cell(fieldnames, lines[1], S_repo))
             applied == Strip(Cell(fieldnames, lines[1], S_applied_ctx_size))
         IN IF repo = <<>> \/ applied = <<>> \/ ~IsDigits(applied)
            THEN RepoCtxLoop(fieldnames, Tail(lines), acc)
            ELSE RepoCtxLoop(fieldnames, Tail(lines), DictSet(acc, repo, DigitsValue(applied)))

\* repo_ctx, or the AttributeError of None.strip()
repo_ctx_of(raw) ==
    LET lines == NonEmptyLines(raw) IN
    IF lines = <<>> THEN [status |-> "ok", repo_ctx |-> <<>>]
    ELSE LET fieldnames == lines[1]
             data == Tail(lines)
         IN IF \E i \in 1..Len(data) :
                   \/ SyncCellNone(fieldnames, data[i], S_repo)
                   \/ SyncCellNone(fieldnames, data[i], S_applied_ctx_size)
            THEN [status |-> "raise", repo_ctx |-> <<>>]
            ELSE [status |-> "ok", repo_ctx |-> RepoCtxLoop(fieldnames, data, <<>>)]

\* the index of the first line that is "models:" when stripped; 0 when there is none
models_start_idx(lines) ==
    LET hits == {i \in 1..Len(lines) : Strip(lines[i]) = S_models_colon} IN
    IF hits = {} THEN 0 ELSE CHOOSE i \in hits : \A j \in hits : i <= j

\* not ln.startswith(" ") and ln.strip()
IsTopLevel(ln) == ~StartsWithAt(ln, 1, <<" ">>) /\ Strip(ln) # <<>>

\* re.match(r"^\s+\"([^\"]+)\":\s*$", ln): whether it matches, and group 1
KeyLineMatches(ln) ==
    LET u == RStrip(LStrip(ln)) IN
    /\ SpaceRun(ln, 1) >= 1
    /\ Len(u) >= 4
    /\ u[1] = "\""
    /\ u[Len(u) - 1] = "\""
    /\ u[Len(u)] = ":"
    /\ \A i \in 2..(Len(u) - 2) : u[i] # "\""
KeyLineGroup(ln) ==
    LET u == RStrip(LStrip(ln)) IN SubSeq(u, 2, Len(u) - 2)

\* whether -hf\s+([^\s:]+/[^\s:]+):[^\s]+ matches at i
HfMatchAt(ln, i) ==
    LET w == SpaceRun(ln, i + 3)
        a == i + 3 + w
        n == NameRun(ln, a)
    IN /\ StartsWithAt(ln, i, S_hf)
       /\ w >= 1
       /\ \E p \in (a + 1)..(a + n - 2) : ln[p] = "/"
       /\ a + n <= Len(ln)
       /\ ln[a + n] = ":"
       /\ WordRun(ln, a + n + 1) >= 1
\* the start of the leftmost match; 0 when there is none
HfMatchStart(ln) ==
    LET hits == {i \in 1..Len(ln) : HfMatchAt(ln, i)} IN
    IF hits = {} THEN 0 ELSE CHOOSE i \in hits : \A j \in hits : i <= j
\* group 1 of the match at i: owner/name without the quant
HfMatchRepo(ln, i) ==
    LET a == i + 3 + SpaceRun(ln, i + 3) IN SubSeq(ln, a, a + NameRun(ln, a) - 1)
\* the index after the match at i
HfMatchEnd(ln, i) ==
    LET a == i + 3 + SpaceRun(ln, i + 3)
        c == a + NameRun(ln, a)
    IN c + 1 + WordRun(ln, c + 1)

\* the loop over lines[models_start_idx+1:]: repo -> (key, cmd line)
RECURSIVE repo_to_entry(_, _, _, _)
repo_to_entry(lines, i, current_key, acc) ==
    IF i > Len(lines) THEN acc
    ELSE LET ln == lines[i] IN
         IF IsTopLevel(ln) THEN acc
         ELSE IF KeyLineMatches(ln)
              THEN repo_to_entry(lines, i + 1, Str(KeyLineGroup(ln)), acc)
         ELSE IF current_key # Null /\ Contains(ln, S_cmd_colon)
              THEN repo_to_entry(lines, i + 1, Null,
                       IF HfMatchStart(ln) # 0
                       THEN DictSet(acc, HfMatchRepo(ln, HfMatchStart(ln)),
                                    [key |-> current_key.v, cmd |-> ln])
                       ELSE acc)
         ELSE repo_to_entry(lines, i + 1, current_key, acc)

\* the length of the match of --ctx-size\s+\d+ at i; 0 when there is none
CtxMatchLen(s, i) ==
    LET w == SpaceRun(s, i + 10)
        d == DigitRun(s, i + 10 + w)
    IN IF StartsWithAt(s, i, S_ctx_size) /\ w >= 1 /\ d >= 1 THEN 10 + w + d ELSE 0

\* re_ctx.sub(f"--ctx-size {ctx}", s), from i on
RECURSIVE CtxSub(_, _, _)
CtxSub(s, i, ctx) ==
    IF i > Len(s) THEN <<>>
    ELSE IF CtxMatchLen(s, i) > 0
         THEN S_ctx_size \o <<" ">> \o IntToStr(ctx) \o CtxSub(s, i + CtxMatchLen(s, i), ctx)
    ELSE <<s[i]>> \o CtxSub(s, i + 1, ctx)

with_ctx(cmd_line, ctx) ==
    IF \E i \in 1..Len(cmd_line) : CtxMatchLen(cmd_line, i) > 0
    THEN CtxSub(cmd_line, 1, ctx)
    ELSE IF HfMatchStart(cmd_line) # 0
         THEN LET e == HfMatchEnd(cmd_line, HfMatchStart(cmd_line)) IN
              SubSeq(cmd_line, 1, e - 1) \o <<" ">> \o S_ctx_size \o <<" ">> \o IntToStr(ctx)
              \o From(cmd_line, e)
    ELSE RStrip(cmd_line) \o <<" ">> \o S_ctx_size \o <<" ">> \o IntToStr(ctx)

\* new_models_lines: the section rebuilt in the order of repo_ctx
RECURSIVE new_models_lines(_, _)
new_models_lines(repo_ctx_pairs, entries) ==
    IF repo_ctx_pairs = <<>> THEN << S_models_colon >>
    ELSE LET n == Len(repo_ctx_pairs)
             rest == new_models_lines(SubSeq(repo_ctx_pairs, 1, n - 1), entries)
             repo == repo_ctx_pairs[n].k
             ctx == repo_ctx_pairs[n].v
         IN IF ~DictHas(entries, repo) THEN rest
            ELSE LET entry == DictGet(entries, repo) IN
                 rest \o << <<" "," ","\"">> \o entry.key \o <<"\"",":">>,
                            <<" "," "," "," ">> \o Strip(with_ctx(entry.cmd, ctx)) >>

(***************************************************************************)
(* The inputs: models.csv files and prior config.yaml documents            *)
(***************************************************************************)
MaxRows == 3
MaxRuns == 2

SeqsUpTo(S, n) == UNION {[1..k -> S] : k \in 0..n}

H_full == <<S_id, S_repo, S_hf_ctx_size, S_applied_ctx_size, S_embedder>>
H_no_applied == <<S_id, S_repo, S_hf_ctx_size>>
H_no_id == <<S_repo, S_applied_ctx_size>>

L_comment == << <<"#","c">> >>
L_blank == << <<" ">> >>

\* cells: id, repo, hf_ctx_size, applied_ctx_size, embedder
BodyLines ==
    { << <<"f">>, <<"o","/","f",":","Q","4">>, <<>>, <<"8">> >>,
      << <<"f","_","_","2">>,
         <<"o","/","f","-","-","f","l","a","s","h","-","a","t","t","n",":","Q","4">>,
         <<>>, <<"-","5">> >>,
      << <<"p","-","1","-","o","f","-","2",".","g","g","u","f">>, <<"p",".","g","g","u","f">>,
         <<>>, <<" ","1","6">>, <<"E","m","b","e","d","d","e","r">> >>,
      << <<" ">>, <<"o","/","N","-","G","G","U","F",":","Q","4">>, <<>>, <<>> >>,
      << <<"g">>, <<" ">>, <<>>, <<"x">> >>,
      << <<"b">>, <<"o","/","b",":","Q","4">>, <<>>, <<"x">> >> }

\* cells: repo, applied_ctx_size
NoIdLines ==
    { << <<"o","/","N","-","G","G","U","F",":","Q","4">>, <<"8">> >>,
      << <<"a","/">>, <<"8">> >> }

CsvFiles ==
    { <<>>, <<L_comment>>, <<L_comment, L_blank>> }
    \cup { <<H_full>> \o body : body \in SeqsUpTo(BodyLines, MaxRows) }
    \cup { <<L_comment, H_no_applied>> \o body : body \in SeqsUpTo(BodyLines, 1) }
    \cup { <<H_no_id, L_comment>> \o body : body \in SeqsUpTo(NoIdLines, 2) }

\* multi-part file names: two parts of one model, upper case, no extension, a
\* plain id equal to the collapsed key, and a name that itself holds a segment
PartLines ==
    { << <<"p","-","1","-","o","f","-","2",".","g","g","u","f">>, <<"p",".","g","g","u","f">>,
         <<>>, <<"8">> >>,
      << <<"p","-","2","-","o","f","-","2",".","g","g","u","f">>, <<"p",".","g","g","u","f">>,
         <<>>, <<"8">>, <<"E","m","b","e","d","d","e","r">> >>,
      << <<"P","-","1","-","O","F","-","2",".","G","G","U","F">>, <<"p",".","g","g","u","f">>,
         <<>>, <<"8">> >>,
      << <<"p","-","1","-","o","f","-","2">>, <<"o","/","f",":","Q","4">>, <<>>, <<"8">> >>,
      << <<"p">>, <<"o","/","f",":","Q","4">>, <<>>, <<"8">> >>,
      << <<"a","-","1","-","o","f","-","2",".","g","g","u","f",
           "-","3","-","o","f","-","4",".","g","g","u","f">>,
         <<"o","/","f",":","Q","4">>, <<>>, <<"8">> >> }

PartFiles ==
    { <<L_comment>> }
    \cup { <<H_full>> \o body : body \in SeqsUpTo(PartLines, MaxRows) }

\* models.csv as sync_ctx_sizes.py meets it: a repo without quant, a repo with
\* one, a size that is no digit string, and a row too short
SyncLines ==
    { << <<"f">>, <<"o","/","f">>, <<>>, <<"8">> >>,
      << <<"f">>, <<"o","/","f",":","Q","4">>, <<>>, <<"1","6">> >>,
      << <<"g">>, <<"o","/","f">>, <<>>, <<"-","5">> >>,
      << <<"f">> >> }

SyncCsvFiles ==
    { <<>>, <<H_no_applied, << <<"f">>, <<"o","/","f">>, <<>> >> >> }
    \cup { <<H_full>> \o body : body \in SeqsUpTo(SyncLines, MaxRows) }

Pair(k, v) == [k |-> k, v |-> v]

OldCmdF == <<"l","l","a","m","a","-","s","e","r","v","e","r"," ","-","h","f"," ",
             "o","/","f",":","Q","4"," ","-","-","c","t","x","-","s","i","z","e"," ","4">>
OldCmdP == <<"s","r","v"," ","-","h","f"," ","p",".","g","g","u","f"," ",
             "-","-","f","l","a","s","h","-","a","t","t","n">>

Docs ==
    { \* sections before and after models; an entry with extra fields; a stale entry
      Map(<< Pair("macros", Str(<<"m">>)),
             Pair("models",
                  Map(<< Pair(<<"o","l","d">>, Map(<< Pair("cmd", Str(OldCmdP)) >>)),
                         Pair(<<"f">>, Map(<< Pair("cmd", Str(OldCmdF)),
                                              Pair("gpu", Num(1)) >>)) >>)),
             Pair("groups", Num(2)) >>),
      \* entries that are no mapping, carry no cmd, or carry a cmd that is no string
      Map(<< Pair("models",
                  Map(<< Pair(<<"f">>, Str(<<"x">>)),
                         Pair(<<"f","_","_","2">>, Map(<< Pair("ttl", Num(5)) >>)),
                         Pair(<<"p">>, Map(<< Pair("gpu", Num(0)),
                                              Pair("cmd", Num(1)) >>)) >>)),
             Pair("hooks", Null) >>),
      \* an empty models mapping
      Map(<< Pair("models", Map(<<>>)) >>),
      \* models is no mapping
      Map(<< Pair("macros", Str(<<"m">>)), Pair("models", Null) >>),
      \* no models section
      Map(<< Pair("macros", Str(<<"m">>)) >>),
      \* the document is no mapping
      Str(<<"x">>) }

\* config.yaml as sync_ctx_sizes.py reads it: the lines of the text
Text(lines) == [t |-> "text", v |-> lines]

T_macros == <<"m","a","c","r","o","s",":"," ","m">>
T_key_f == <<" "," ","\"","f","\"",":">>
T_cmd_ctx == <<" "," "," "," ","c","m","d",":"," ","s","r","v"," ","-","h","f"," ",
               "o","/","f",":","Q","4"," ","-","-","c","t","x","-","s","i","z","e"," ","4">>
T_cmd == <<" "," "," "," ","c","m","d",":"," ","s","r","v"," ","-","h","f"," ",
           "o","/","f",":","Q","4">>
T_ttl == <<" "," "," "," ","t","t","l",":"," ","5">>
T_groups == <<"g","r","o","u","p","s",":"," ","2">>

SyncDocs ==
    { Text(<< T_macros, S_models_colon, T_key_f, T_cmd_ctx, T_groups >>),
      Text(<< S_models_colon, T_key_f, T_ttl, T_cmd >>),
      Text(<< T_macros, S_models_colon >>),
      Text(<< T_macros, T_groups >>) }

(***************************************************************************)
(* The run of a script                                                     *)
(***************************************************************************)
VARIABLES
    script,       \* the script that is run
    csv,          \* models.csv
    disk,         \* config.yaml: the YAML document, or the text for sync_ctx_sizes.py
    disk0,        \* config.yaml as the current run found it
    run,          \* the number of the current run
    prev_models,  \* the models mapping the previous run wrote; Null before
    pc,           \* the place of the run in the script
    rows,         \* rows = load_csv_rows(CSV_PATH)
    repo_ctx,     \* sync_ctx_sizes.py's repo_ctx
    cfg,          \* cfg = yaml.safe_load(f)
    r2e,          \* create.py's repo_to_existing
    new_models,   \* the mapping being rebuilt
    seen_keys,
    n_done,       \* the rows the loop has gone through
    writes,       \* the writes of config.yaml in the current run
    exit_code     \* the exit status; -1 while the script runs

vars == <<script, csv, disk, disk0, run, prev_models, pc, rows, repo_ctx, cfg, r2e,
          new_models, seen_keys, n_done, writes, exit_code>>

Scripts == {"create", "create_locals", "sync_ctx_sizes"}

InitWith(files) ==
    /\ script \in Scripts
    /\ csv \in (IF script = "sync_ctx_sizes" THEN SyncCsvFiles ELSE files)
    /\ disk \in (IF script = "sync_ctx_sizes" THEN SyncDocs ELSE Docs)
    /\ disk0 = disk
    /\ run = 1
    /\ prev_models = Null
    /\ pc = "start"
    /\ rows = <<>>
    /\ repo_ctx = <<>>
    /\ cfg = Null
    /\ r2e = <<>>
    /\ new_models = <<>>
    /\ seen_keys = {}
    /\ n_done = 0
    /\ writes = 0
    /\ exit_code = -1

Init == InitWith(CsvFiles)

Exit(code) == pc' = "exit" /\ exit_code' = code

\* rows = load_csv_rows(CSV_PATH): sys.exit(2) on a missing column, exit status 1
\* on the uncaught ValueError of int()
LoadCsv ==
    /\ pc = "start"
    /\ script \in {"create", "create_locals"}
    /\ LET res == load_csv_rows(csv, script = "create_locals") IN
       /\ rows' = res.rows
       /\ IF res.status = "exit" THEN Exit(2)
          ELSE IF res.status = "raise" THEN Exit(1)
          ELSE pc' = "loaded" /\ exit_code' = exit_code
    /\ UNCHANGED <<script, csv, disk, disk0, run, prev_models, repo_ctx, cfg, r2e,
                   new_models, seen_keys, n_done, writes>>

\* if not rows: sys.exit(0)
NothingToDo ==
    /\ pc = "loaded"
    /\ script \in {"create", "create_locals"}
    /\ rows = <<>>
    /\ Exit(0)
    /\ UNCHANGED <<script, csv, disk, disk0, run, prev_models, rows, repo_ctx, cfg, r2e,
                   new_models, seen_keys, n_done, writes>>

\* a variant of LoadConfig that does not rely on the empty table having exited
LoadConfigAnyRows ==
    /\ pc = "loaded"
    /\ script \in {"create", "create_locals"}
    /\ cfg' = disk
    /\ IF ~IsDict(disk) THEN Exit(3) /\ r2e' = r2e
       ELSE IF ~IsDict(DictGet(disk.v, "models")) THEN Exit(4) /\ r2e' = r2e
       ELSE /\ pc' = "loop"
            /\ exit_code' = exit_code
            /\ r2e' = IF script = "create"
                      THEN repo_to_existing(DictGet(disk.v, "models").v)
                      ELSE r2e
    /\ UNCHANGED <<script, csv, disk, disk0, run, prev_models, rows, repo_ctx,
                   new_models, seen_keys, n_done, writes>>

\* cfg = yaml.safe_load(f) and the two checks of it; create.py then builds
\* repo_to_existing
LoadConfig ==
    /\ pc = "loaded"
    /\ script \in {"create", "create_locals"}
    /\ rows # <<>>
    /\ cfg' = disk
    /\ IF ~IsDict(disk) THEN Exit(3) /\ r2e' = r2e
       ELSE IF ~IsDict(DictGet(disk.v, "models")) THEN Exit(4) /\ r2e' = r2e
       ELSE /\ pc' = "loop"
            /\ exit_code' = exit_code
            /\ r2e' = IF script = "create"
                      THEN repo_to_existing(DictGet(disk.v, "models").v)
                      ELSE r2e
    /\ UNCHANGED <<script, csv, disk, disk0, run, prev_models, rows, repo_ctx,
                   new_models, seen_keys, n_done, writes>>

existing_models == DictGet(cfg.v, "models").v

\* one iteration of create_locals.py's loop over rows
LocalsRow ==
    /\ pc = "loop"
    /\ script = "create_locals"
    /\ n_done < Len(rows)
    /\ LET r == rows[n_done + 1]
           model_id_raw == ModelIdRaw(r)
           yaml_key == ResolveKey(original_key(model_id_raw), seen_keys)
           cmd == build_cmd(model_id_raw, r.repo, r.applied, r.embedder)
       IN /\ seen_keys' = seen_keys \cup {yaml_key}
          /\ new_models' = DictSet(new_models, yaml_key,
                                   preserved_entry(existing_models, yaml_key, cmd))
    /\ n_done' = n_done + 1
    /\ UNCHANGED <<script, csv, disk, disk0, run, prev_models, pc, rows, repo_ctx, cfg,
                   r2e, writes, exit_code>>

\* one iteration of create.py's loop over rows
CreateRow ==
    /\ pc = "loop"
    /\ script = "create"
    /\ n_done < Len(rows)
    /\ LET r == rows[n_done + 1]
           model_id == ResolveKey(ModelIdRaw(r), seen_keys)
           cmd == create_build_cmd(ExistingCmd(r2e, r.repo), r.repo, r.applied)
       IN /\ seen_keys' = seen_keys \cup {model_id}
          /\ new_models' = DictSet(new_models, model_id, Map(<< Pair("cmd", Str(cmd)) >>))
    /\ n_done' = n_done + 1
    /\ UNCHANGED <<script, csv, disk, disk0, run, prev_models, pc, rows, repo_ctx, cfg,
                   r2e, writes, exit_code>>

\* a variant of WriteBack that dumps from inside the loop, whatever is built
WriteBackInLoop ==
    /\ pc = "loop"
    /\ n_done <= Len(rows)
    /\ cfg' = Map(DictSet(cfg.v, "models", Map(new_models)))
    /\ disk' = cfg'
    /\ writes' = writes + 1
    /\ Exit(0)
    /\ UNCHANGED <<script, csv, disk0, run, prev_models, rows, repo_ctx, r2e,
                   new_models, seen_keys, n_done>>

\* cfg["models"] = new_models, and the dump of cfg over config.yaml.  The file is
\* held as the document it parses to: the dumper's block style changes how a
\* string is written, not the string.
WriteBack ==
    /\ pc = "loop"
    /\ n_done = Len(rows)
    /\ cfg' = Map(DictSet(cfg.v, "models", Map(new_models)))
    /\ disk' = cfg'
    /\ writes' = writes + 1
    /\ Exit(0)
    /\ UNCHANGED <<script, csv, disk0, run, prev_models, rows, repo_ctx, r2e,
                   new_models, seen_keys, n_done>>

\* sync_ctx_sizes.py: repo_ctx from models.csv; exit status 1 on the uncaught
\* AttributeError, 0 when no row is valid
SyncLoadCsv ==
    /\ pc = "start"
    /\ script = "sync_ctx_sizes"
    /\ LET res == repo_ctx_of(csv) IN
       /\ repo_ctx' = res.repo_ctx
       /\ IF res.status = "raise" THEN Exit(1)
          ELSE IF res.repo_ctx = <<>> THEN Exit(0)
          ELSE pc' = "loaded" /\ exit_code' = exit_code
    /\ UNCHANGED <<script, csv, disk, disk0, run, prev_models, rows, cfg, r2e,
                   new_models, seen_keys, n_done, writes>>

\* sync_ctx_sizes.py: the models section located, parsed, rebuilt and written
SyncRewrite ==
    /\ pc = "loaded"
    /\ script = "sync_ctx_sizes"
    /\ LET lines == disk.v
           start == models_start_idx(lines)
           entries == repo_to_entry(lines, start + 1, Null, <<>>)
           head == SubSeq(lines, 1, start - 1)
       IN IF start = 0 \/ entries = <<>>
          THEN Exit(1) /\ UNCHANGED <<disk, writes>>
          ELSE /\ disk' = Text(head \o new_models_lines(repo_ctx, entries))
               /\ writes' = writes + 1
               /\ Exit(0)
    /\ UNCHANGED <<script, csv, disk0, run, prev_models, rows, repo_ctx, cfg, r2e,
                   new_models, seen_keys, n_done>>

\* the script is run again, models.csv unchanged, on the document it wrote
Rerun ==
    /\ pc = "exit"
    /\ writes = 1
    /\ run < MaxRuns
    /\ run' = run + 1
    /\ disk0' = disk
    /\ prev_models' = IF script = "sync_ctx_sizes" THEN Null ELSE DictGet(disk.v, "models")
    /\ pc' = "start"
    /\ rows' = <<>>
    /\ repo_ctx' = <<>>
    /\ cfg' = Null
    /\ r2e' = <<>>
    /\ new_models' = <<>>
    /\ seen_keys' = {}
    /\ n_done' = 0
    /\ writes' = 0
    /\ exit_code' = -1
    /\ UNCHANGED <<script, csv, disk>>

Next ==
    \/ LoadCsv
    \/ NothingToDo
    \/ LoadConfig
    \/ LocalsRow
    \/ CreateRow
    \/ WriteBack
    \/ SyncLoadCsv
    \/ SyncRewrite
    \/ Rerun

Spec == Init /\ [][Next]_vars

\* the same runs over tables of multi-part file names
InitParts == InitWith(PartFiles)
SpecParts == InitParts /\ [][Next]_vars

(***************************************************************************)
(* What the claims speak of                                                *)
(***************************************************************************)
CreateScripts == {"create", "create_locals"}

\* the run has ended after writing config.yaml
Wrote == pc = "exit" /\ writes = 1

\* the header of models.csv and its data lines, as the loader of create.py and
\* create_locals.py sees them
Header(raw) == Filtered(raw)[1]
DataLines(raw) == IF Filtered(raw) = <<>> THEN <<>> ELSE Tail(Filtered(raw))
HeaderOk(raw) ==
    \/ Filtered(raw) = <<>>
    \/ {S_repo, S_applied_ctx_size} \subseteq {Header(raw)[i] : i \in 1..Len(Header(raw))}

\* the usable rows: neither comment nor blank nor header, with a repo
Usable(raw) ==
    SelectSeq(DataLines(raw), LAMBDA l : Strip(Cell(Header(raw), l, S_repo)) # <<>>)

\* the models mapping of config.yaml now, and as the run found it
WrittenModels == DictGet(disk.v, "models").v
PriorModels == DictGet(disk0.v, "models").v

\* the key of a row before collision suffixing
BaseKey(r) ==
    IF script = "create_locals" THEN original_key(ModelIdRaw(r)) ELSE ModelIdRaw(r)

Suffixed(base, n) == base \o <<"_","_">> \o IntToStr(n)

\* C1: in every script the file is written at most once per run and is as the
\* run found it until then; a run that ends on a fatal condition (any exit
\* status but 0) has written nothing; and create.py and create_locals.py write
\* only once every row is in new_models, and write that mapping.
C1_NoPartialWrite ==
    /\ writes <= 1
    /\ (writes = 0 => disk = disk0)
    /\ (pc = "exit" /\ exit_code # 0 => writes = 0 /\ disk = disk0)
    /\ (writes = 1 =>
            /\ pc = "exit"
            /\ exit_code = 0
            /\ (script \in CreateScripts =>
                    /\ n_done = Len(rows)
                    /\ Len(new_models) = Len(rows)
                    /\ DictGet(disk.v, "models") = Map(new_models)))

\* a run with rows to render that ended on "no models mapping", nothing written
C1_Witness ==
    /\ pc = "exit"
    /\ exit_code = 4
    /\ Len(rows) >= 2
    /\ writes = 0
    /\ disk = disk0

\* C2: after a successful run of create.py or create_locals.py the keys of the
\* written models mapping are, in table order, the resolved keys of the usable
\* rows: as many keys as usable rows, all distinct, the i-th being the i-th
\* row's base key resolved against the keys before it; a key of the prior
\* models that is none of them is absent.
C2_KeysAreResolvedRows ==
    (script \in CreateScripts /\ Wrote) =>
        LET keys == Keys(WrittenModels)
            usable == Usable(csv)
        IN /\ Len(keys) = Len(usable)
           /\ Len(rows) = Len(usable)
           /\ \A i, j \in 1..Len(keys) : i # j => keys[i] # keys[j]
           /\ \A i \in 1..Len(keys) :
                 /\ rows[i].repo = Strip(Cell(Header(csv), usable[i], S_repo))
                 /\ keys[i] = ResolveKey(BaseKey(rows[i]), {keys[j] : j \in 1..(i - 1)})
           /\ \A i \in 1..Len(PriorModels) :
                 PriorModels[i].k \notin {keys[j] : j \in 1..Len(keys)}
                     => ~DictHas(WrittenModels, PriorModels[i].k)

\* three usable rows with ids f, f__2, f among skipped lines, over a prior
\* document that holds the stale key old
C2_Witness ==
    /\ script \in CreateScripts
    /\ Wrote
    /\ Keys(WrittenModels) = << <<"f">>, <<"f","_","_","2">>, <<"f","_","_","3">> >>
    /\ DictHas(PriorModels, <<"o","l","d">>)
    /\ ~DictHas(WrittenModels, <<"o","l","d">>)

\* C5: when models.csv yields zero usable rows (it is empty, holds only comment
\* and blank lines, or its rows all lack a repo, under a header the loader
\* accepts), create.py and create_locals.py exit with status 0 and config.yaml
\* is neither read nor written, whatever it holds.
C5_NothingToDo ==
    (script \in CreateScripts /\ pc = "exit" /\ HeaderOk(csv) /\ Usable(csv) = <<>>) =>
        /\ exit_code = 0
        /\ writes = 0
        /\ disk = disk0
        /\ cfg = Null

\* a table of a header and one row without repo, over a config.yaml that is no
\* mapping
C5_Witness ==
    /\ script \in CreateScripts
    /\ pc = "exit"
    /\ Len(csv) = 2
    /\ Len(DataLines(csv)) = 1
    /\ Usable(csv) = <<>>
    /\ ~IsDict(disk)
    /\ exit_code = 0

\* the command a script renders for a row
FreshCmd(r) ==
    IF script = "create_locals"
    THEN build_cmd(ModelIdRaw(r), r.repo, r.applied, r.embedder)
    ELSE create_build_cmd(ExistingCmd(r2e, r.repo), r.repo, r.applied)

\* every field of the prior entry but cmd is in the new entry with its value
KeepsFields(prior, new) ==
    \A i \in 1..Len(prior.v) :
        prior.v[i].k # "cmd" =>
            /\ DictHas(new.v, prior.v[i].k)
            /\ DictGet(new.v, prior.v[i].k) = prior.v[i].v

\* the i-th written entry keeps the fields of the prior entry under its key, if
\* that is a mapping, and carries the command rendered from the i-th row
PreservesEntry(i) ==
    LET prior == DictGet(PriorModels, WrittenModels[i].k)
        new == WrittenModels[i].v
    IN /\ IsDict(new)
       /\ DictGet(new.v, "cmd") = Str(FreshCmd(rows[i]))
       /\ IsDict(prior) => KeepsFields(prior, new)

\* C3 as claimed: in create.py and create_locals.py alike, every regenerated
\* entry whose key had a mapping in the prior document keeps that entry's
\* fields other than cmd, and its cmd is the freshly rendered command.
C3_FieldsPreserved ==
    (script \in CreateScripts /\ Wrote) =>
        /\ Len(WrittenModels) = Len(rows)
        /\ \A i \in 1..Len(rows) : PreservesEntry(i)

\* C3 as amended: create_locals.py keeps the fields other than cmd of the prior
\* entry under the same key and sets cmd to the command rendered from the row;
\* create.py keeps no field: each of its entries is cmd alone.
C3_FieldsPreservedByLocals ==
    Wrote =>
        /\ script = "create_locals" =>
              /\ Len(WrittenModels) = Len(rows)
              /\ \A i \in 1..Len(rows) : PreservesEntry(i)
        /\ script = "create" =>
              /\ Len(WrittenModels) = Len(rows)
              /\ \A i \in 1..Len(rows) :
                    WrittenModels[i].v = Map(<< Pair("cmd", Str(FreshCmd(rows[i]))) >>)

\* create_locals.py regenerated f, whose prior entry was {cmd: old, gpu: 1}
C3_Witness ==
    /\ script = "create_locals"
    /\ Wrote
    /\ DictGet(PriorModels, <<"f">>) = Map(<< Pair("cmd", Str(OldCmdF)), Pair("gpu", Num(1)) >>)
    /\ DictHas(WrittenModels, <<"f">>)
    /\ DictGet(DictGet(WrittenModels, <<"f">>).v, "gpu") = Num(1)
    /\ DictGet(DictGet(WrittenModels, <<"f">>).v, "cmd") # Str(OldCmdF)

\* the lines of config.yaml outside its models section, which runs from the
\* models: line to the next top-level line
SectionEnd(lines, start) ==
    LET tops == {i \in (start + 1)..Len(lines) : IsTopLevel(lines[i])} IN
    IF tops = {} THEN Len(lines) + 1 ELSE CHOOSE i \in tops : \A j \in tops : i <= j
OtherLines(lines) ==
    LET start == models_start_idx(lines) IN
    IF start = 0 THEN lines
    ELSE SubSeq(lines, 1, start - 1) \o From(lines, SectionEnd(lines, start))

\* the top-level sections of config.yaml other than models, in order
OtherSections(doc) ==
    IF doc.t = "text" THEN OtherLines(doc.v)
    ELSE SelectSeq(doc.v, LAMBDA q : q.k # "models")

\* C4 as claimed: a successful run of any of the three scripts leaves every
\* top-level section other than models in the document, with its key, its value
\* and its place among the others, before models or after it.
C4_OtherSectionsKept ==
    Wrote =>
        /\ OtherSections(disk) = OtherSections(disk0)
        /\ script \in CreateScripts => Keys(disk.v) = Keys(disk0.v)

\* C6 as claimed: a second run over the document the first run wrote, models.csv
\* unchanged, writes the models mapping the first run wrote.
C6_Idempotent ==
    (script \in CreateScripts /\ Wrote /\ run >= 2) =>
        DictGet(disk.v, "models") = prev_models

\* the number of rows before the i-th with the base key of the i-th
EarlierSame(i) == Cardinality({j \in 1..(i - 1) : BaseKey(rows[j]) = BaseKey(rows[i])})

\* C7 as claimed: the first row with a base key keeps it, and the k-th row with
\* that base key gets the base key with __k appended.
C7_SuffixByOccurrence ==
    (script \in CreateScripts /\ Wrote) =>
        /\ Len(WrittenModels) = Len(rows)
        /\ \A i \in 1..Len(rows) :
              WrittenModels[i].k =
                  IF EarlierSame(i) = 0 THEN BaseKey(rows[i])
                  ELSE Suffixed(BaseKey(rows[i]), EarlierSame(i) + 1)

\* C7 as amended: rows are keyed in source order; a row keeps its base key
\* unless an earlier row was given that very key, and otherwise gets the base
\* key with __n for the least n >= 2 such that no earlier row was given that
\* key; no key is given twice.
C7_SuffixLeastUnused ==
    (script \in CreateScripts /\ Wrote) =>
        /\ Len(WrittenModels) = Len(rows)
        /\ \A i \in 1..Len(rows) :
              LET base == BaseKey(rows[i])
                  earlier == {WrittenModels[j].k : j \in 1..(i - 1)}
                  free == {n \in 2..(i + 1) : Suffixed(base, n) \notin earlier}
              IN /\ WrittenModels[i].k \notin earlier
                 /\ WrittenModels[i].k =
                       IF base \notin earlier THEN base
                       ELSE Suffixed(base, CHOOSE n \in free : \A m \in free : n <= m)

\* rows with ids f, f__2, f: the second f finds f__2 taken and becomes f__3
C7_Witness ==
    /\ script \in CreateScripts
    /\ Wrote
    /\ Len(rows) = 3
    /\ rows[1].id = <<"f">>
    /\ rows[2].id = <<"f","_","_","2">>
    /\ rows[3].id = <<"f">>
    /\ Keys(WrittenModels) = << <<"f">>, <<"f","_","_","2">>, <<"f","_","_","3">> >>

\* an id of the form <name>-<digits>-of-<digits> with an optional .gguf after
\* it, in any case: the id without that extension, the start of the numbering
\* segment that ends it, and the name before the segment
ExtStripped(id) ==
    IF EndsWith(Lower(id), S_gguf) THEN SubSeq(id, 1, Len(id) - 5) ELSE id
SegmentStarts(e) ==
    {i \in 1..Len(e) :
        LET d1 == DigitRun(e, i + 1)
            d2 == DigitRun(e, i + 1 + d1 + 4)
        IN /\ e[i] = "-"
           /\ d1 >= 1
           /\ StartsWithAt(Lower(e), i + 1 + d1, <<"-","o","f","-">>)
           /\ d2 >= 1
           /\ i + 1 + d1 + 4 + d2 = Len(e) + 1}
IsMultipart(id) == SegmentStarts(ExtStripped(id)) # {}
PartName(id) ==
    LET e == ExtStripped(id) IN SubSeq(e, 1, (CHOOSE i \in SegmentStarts(e) : TRUE) - 1)

S_models_dir == <<"/","m","o","d","e","l","s","/">>

\* C8 as claimed: in create_locals.py a row whose id is <name>, a numbering
\* segment and an optional .gguf has the base key <name>, so that the parts of
\* one model share it and the later ones go through collision suffixing; its
\* command is rendered from the id as written, and names the file by it when
\* the id ends in .gguf.
C8_MultipartCollapse ==
    (script = "create_locals" /\ Wrote) =>
        /\ Len(WrittenModels) = Len(rows)
        /\ \A i \in 1..Len(rows) :
              IsMultipart(rows[i].id) =>
                  LET cmd == DictGet(WrittenModels[i].v.v, "cmd") IN
                  /\ WrittenModels[i].k =
                        ResolveKey(PartName(rows[i].id), {WrittenModels[j].k : j \in 1..(i - 1)})
                  /\ cmd = Str(build_cmd(rows[i].id, rows[i].repo, rows[i].applied,
                                         rows[i].embedder))
                  /\ EndsWith(rows[i].id, S_gguf) =>
                        Contains(cmd.v, S_models_dir \o rows[i].id)

\* load_csv_rows has returned its rows
Loaded == pc \in {"loaded", "loop"} \/ (pc = "exit" /\ exit_code \in {0, 3, 4})

\* the id the claim derives from a repo: the path prefix stripped, a trailing
\* -GGUF of the base name dropped, the quant reattached after a colon
ClaimedId(repo) ==
    RemoveSuffix(BeforeFirst(AfterLast(repo, "/"), ":"), S_GGUF_suffix)
    \o (IF HasChar(repo, ":") THEN <<":">> \o AfterFirst(repo, ":") ELSE <<>>)

\* C9 as claimed: a row whose id cell is absent or blank is given the id
\* derived from its repo, -GGUF dropped: owner/Name-GGUF:Q4 gives Name:Q4.
C9_DerivedId ==
    (script \in CreateScripts /\ Loaded) =>
        /\ Len(rows) = Len(Usable(csv))
        /\ \A i \in 1..Len(rows) :
              Strip(Cell(Header(csv), Usable(csv)[i], S_id)) = <<>> =>
                  ModelIdRaw(rows[i]) = ClaimedId(rows[i].repo)

\* C10 as claimed: every row the loader yields has a repo and an applied
\* context size that is no negative number, 0 for a blank cell.
C10_RowsValid ==
    (script \in CreateScripts /\ Loaded) =>
        /\ Len(rows) = Len(Usable(csv))
        /\ \A i \in 1..Len(rows) :
              /\ rows[i].repo # <<>>
              /\ rows[i].applied >= 0
              /\ Strip(Cell(Header(csv), Usable(csv)[i], S_applied_ctx_size)) = <<>>
                    => rows[i].applied = 0
====
